---- MODULE Spec2Model ----
(***************************************************************************)
(* CAST backend, server/controllers.go: the HTTP handlers of the vote,     *)
(* tally, vote-listing, proposal and community paths, as a state machine   *)
(* over the persisted state (proposals, votes, communities, achievements)  *)
(* and one response writer per request.  Each request is handled by its    *)
(* own worker; a handler is a sequence of atomic steps, one per access to  *)
(* the shared database.                                                    *)
(***************************************************************************)
EXTENDS Integers, Sequences, FiniteSets, TLC

\* ------------------------------------------------------------------ bounds
NumReq == 2     \* concurrent requests (workers)
MaxTime == 1    \* the clock runs 0..MaxTime
MaxVotes == 2   \* votes already in the ledger when the read paths start
MaxLen == 2     \* characters of a form value
MaxCount == 3   \* the configured maximum of a page runs 1..MaxCount

\* ------------------------------------------------------- program constants
StatusOK == 200
StatusCreated == 201
StatusBadRequest == 400
StatusUnauthorized == 401
StatusForbidden == 403
StatusNotFound == 404
StatusInternalServerError == 500
SearchDefaultCount == 25   \* the page maximum searchCommunities passes

Reqs == 1..NumReq
Addrs == {"X", "Y", "Z"}
Choices == {"yes", "no"}
ProposalIds == {1, 2}
CommunityIds == {1}
\* Strategy names with a registered handler, and one whose handler was removed.
RegisteredStrategies == {"one-address-one-vote", "balance-threshold"}
StrategyNames == RegisteredStrategies \cup {"removed-strategy"}

VARIABLES
    now,                  \* wall clock, read by the computed status
    proposals,            \* table proposals: id -> row
    votes,                \* table votes, in insertion order
    communities,          \* table communities: id -> row
    awards,               \* proposal id -> number of times the achievements were awarded
    errIncompleteRequest, \* package-level error value (a mutable global)
    errCreateCommunity,   \* package-level error value (a mutable global)
    req,                  \* request -> the handler's locals and position
    resp,                 \* request -> what its http.ResponseWriter has been given
    page                  \* a paginated request: its form values, its PageParams

vars == <<now, proposals, votes, communities, awards,
          errIncompleteRequest, errCreateCommunity, req, resp, page>>
db == <<proposals, votes, communities, awards>>
globals == <<errIncompleteRequest, errCreateCommunity>>

\* ------------------------------------------------------------ error values
errorResponse(code, errorCode) == [StatusCode |-> code, ErrorCode |-> errorCode]

errIncompleteRequest0 == errorResponse(StatusBadRequest, "ERR_1001")
errCreateCommunity0 == errorResponse(StatusBadRequest, "ERR_1002")
errFetchingBalance == errorResponse(StatusBadRequest, "ERR_1003")
errInsufficientBalance == errorResponse(StatusUnauthorized, "ERR_1004")
errForbidden == errorResponse(StatusForbidden, "ERR_1005")
errStrategyNotFound == errorResponse(StatusNotFound, "ERR_1008")
errAlreadyVoted == errorResponse(StatusBadRequest, "ERR_1009")
errInactiveProposal == errorResponse(StatusBadRequest, "ERR_1010")
errCreateVote == errorResponse(StatusInternalServerError, "ERR_1012")
nilErr == errorResponse(0, "")

\* ------------------------------------------------------ the response writer
\* status = 0: no header written yet.  http.ResponseWriter keeps the first
\* WriteHeader and appends every Write to the body.
NoResponse == [status |-> 0, body |-> <<>>]

respondWithJSON(w, code, payload) ==
    [status |-> IF w.status = 0 THEN code ELSE w.status,
     body |-> Append(w.body, payload)]

respondWithError(w, err) ==
    respondWithJSON(w, err.StatusCode,
                    [kind |-> "error", statusCode |-> err.StatusCode,
                     errorCode |-> err.ErrorCode])

\* ------------------------------------------------------------- proposals
\* models.Proposal{}: what a failed lookup hands back (ID 0, nil pointers).
ZeroProposal ==
    [id |-> 0, community_id |-> 0, strategy |-> "nil", status |-> "nil",
     computed_status |-> "nil", achievements_done |-> FALSE,
     end_time |-> 0, cid |-> "nil"]

\* The status a read computes from the persisted status and the time window.
ComputedStatus(status, end_time, t) ==
    IF status = "cancelled" THEN "cancelled"
    ELSE IF status = "closed" \/ t >= end_time THEN "closed"
    ELSE "active"

\* helpers.fetchProposal: the row with its computed status, or an error.
fetchProposal(id) ==
    IF id \in DOMAIN proposals
    THEN [err |-> FALSE,
          p |-> [id |-> id,
                 community_id |-> proposals[id].community_id,
                 strategy |-> proposals[id].strategy,
                 status |-> proposals[id].status,
                 computed_status |->
                     ComputedStatus(proposals[id].status, proposals[id].end_time, now),
                 achievements_done |-> proposals[id].achievements_done,
                 end_time |-> proposals[id].end_time,
                 cid |-> proposals[id].cid]]
    ELSE [err |-> TRUE, p |-> ZeroProposal]

\* ------------------------------------------------------------ strategies
\* Balance of each address at the proposal's snapshot height.
Balance == [a \in Addrs |-> IF a = "X" THEN 15 ELSE IF a = "Y" THEN 20 ELSE 5]
Threshold == 10

\* Strategy Engine: the weight of an address, or the failure.
computeWeight(strategy, addr, chainOK) ==
    IF strategy \notin RegisteredStrategies
    THEN [err |-> errStrategyNotFound, weight |-> 0]
    ELSE IF strategy = "one-address-one-vote"
    THEN [err |-> nilErr, weight |-> 1]
    ELSE IF ~chainOK
    THEN [err |-> errFetchingBalance, weight |-> 0]
    ELSE [err |-> nilErr, weight |-> Balance[addr]]

\* ----------------------------------------------------------------- votes
HasVoted(vs, pid, addr) ==
    \E i \in DOMAIN vs : vs[i].proposal_id = pid /\ vs[i].addr = addr

NoVote == [proposal_id |-> 0, addr |-> "", choice |-> "", weight |-> 0]

\* Steps 1-3 of castVote: status, identity, weight.  nilErr when all pass.
createVoteChecks(p, addr, sigOK, chainOK) ==
    LET w == computeWeight(p.strategy, addr, chainOK) IN
    IF p.computed_status # "active" THEN errInactiveProposal
    ELSE IF ~sigOK THEN errForbidden
    ELSE IF w.err # nilErr THEN w.err
    ELSE IF p.strategy = "balance-threshold" /\ w.weight < Threshold
    THEN errInsufficientBalance
    ELSE nilErr

\* Step 4 of castVote: the insert under the (proposal, address) uniqueness
\* constraint of the votes table.
insertVote(vs, v) ==
    IF HasVoted(vs, v.proposal_id, v.addr)
    THEN [err |-> errAlreadyVoted, votes |-> vs]
    ELSE [err |-> nilErr, votes |-> Append(vs, v)]

\* helpers.createVote(r, proposal): the vote and the table after it, or an
\* error response.
createVote(vs, p, addr, choice, sigOK, chainOK) ==
    LET e == createVoteChecks(p, addr, sigOK, chainOK)
        v == [proposal_id |-> p.id, addr |-> addr, choice |-> choice,
              weight |-> computeWeight(p.strategy, addr, chainOK).weight]
        ins == insertVote(vs, v)
    IN  IF e # nilErr THEN [err |-> e, vote |-> NoVote, votes |-> vs]
        ELSE IF ins.err # nilErr THEN [err |-> ins.err, vote |-> NoVote, votes |-> vs]
        ELSE [err |-> nilErr, vote |-> v, votes |-> ins.votes]

\* --------------------------------------------------------------- requests
ZeroResults == [c \in Choices |-> 0]

\* A request: the handler serving it, where that handler stands, its route
\* parameter id, the address of its payload, whether the signatures it
\* carries verify and whether its pin to IPFS succeeds, the handler's locals
\* (proposal, votes, results, httpStatus) and the error the handler last saw.
IdleReq ==
    [handler |-> "none", pc |-> "idle", id |-> 0, addr |-> "",
     proposal |-> ZeroProposal, votes |-> <<>>, results |-> ZeroResults,
     sigOK |-> FALSE, pinOK |-> FALSE, httpStatus |-> 0, err |-> ""]

\* The handler has returned: its locals are gone.
Finish(h, id, addr, err) ==
    [IdleReq EXCEPT !.handler = h, !.pc = "done", !.id = id, !.addr = addr,
                    !.err = err]

\* The handler stands at pc with the proposal it fetched.
Fetched(h, id, p) ==
    [IdleReq EXCEPT !.handler = h, !.pc = "fetched", !.id = id, !.proposal = p]

\* ------------------------------------------------- createVoteForProposal
\* Lines 238-246: the proposal lookup.
createVoteForProposal_fetch(r) ==
    /\ req[r].pc = "idle"
    /\ \E id \in ProposalIds \cup {0} :
         LET f == fetchProposal(id) IN
         IF f.err
         THEN /\ req' = [req EXCEPT ![r] =
                           Finish("createVoteForProposal", id, "", "lookup")]
              /\ resp' = [resp EXCEPT ![r] = respondWithError(@, errIncompleteRequest)]
         ELSE /\ req' = [req EXCEPT ![r] = Fetched("createVoteForProposal", id, f.p)]
              /\ resp' = resp
    /\ UNCHANGED <<page, now, db, globals>>

\* Lines 249-255: what the handler answers with createVote's result.
GenericCreateVoteResponse(w, vote, errResponse) ==
    IF errResponse # nilErr
    THEN respondWithError(w, errIncompleteRequest)
    ELSE respondWithJSON(w, StatusCreated, [kind |-> "vote", vote |-> vote])

createVoteResponse(w, vote, errResponse) ==
    IF errResponse # nilErr
    THEN respondWithError(w, errResponse)
    ELSE respondWithJSON(w, StatusCreated, [kind |-> "vote", vote |-> vote])

\* Lines 248-256: createVote on the proposal fetched before, and the answer.
\* The payload (address, choice, signatures) is read inside createVote.
createVoteForProposal_create(r) ==
    /\ req[r].handler = "createVoteForProposal"
    /\ req[r].pc = "fetched"
    /\ \E a \in Addrs, c \in Choices, sigOK \in BOOLEAN, chainOK \in BOOLEAN :
         LET res == createVote(votes, req[r].proposal, a, c, sigOK, chainOK) IN
         /\ votes' = res.votes
         /\ req' = [req EXCEPT ![r] =
                      Finish("createVoteForProposal", req[r].id, a, res.err.ErrorCode)]
         /\ resp' = [resp EXCEPT ![r] = createVoteResponse(@, res.vote, res.err)]
    /\ UNCHANGED <<page, now, proposals, communities, awards, globals>>

\* ---------------------------------------------------------- updateProposal
\* Table community_users: the role grants (community, address, role).
community_users ==
    {<<1, "X", "admin">>, <<1, "X", "author">>, <<1, "X", "member">>,
     <<1, "Y", "member">>}

\* helpers.validateUserWithRole: the composite signatures prove the address
\* and the address holds the role in the community.  TRUE when it fails.
validateUserWithRole(addr, sigOK, communityId, role) ==
    ~(sigOK /\ <<communityId, addr, role>> \in community_users)

\* helpers.validateUserWithRoleViaVoucher: the same through a voucher, whose
\* own signatures prove the voucher's signer.  TRUE when it fails.
validateUserWithRoleViaVoucher(addr, voucherSigOK, communityId, role) ==
    ~(voucherSigOK /\ <<communityId, addr, role>> \in community_users)

\* helpers.pinJSONToIpfs: the content identifier of the proposal, a function
\* of its content.
pinJSONToIpfs(p) == p.status

\* Lines 353-404 up to the write, with the return after a pin error left out.
updateProposalChecksNoPin(p, payloadOK, status, voucher, addr, sigOK, pinOK, dbOK) ==
    IF ~payloadOK THEN "payload"
    ELSE IF status # "cancelled" THEN "status"
    ELSE IF voucher /\ validateUserWithRoleViaVoucher(addr, sigOK, p.community_id, "author")
    THEN "voucher"
    ELSE IF ~voucher /\ validateUserWithRole(addr, sigOK, p.community_id, "author")
    THEN "role"
    ELSE IF ~dbOK THEN "db"
    ELSE ""

\* Lines 353-404 up to the write: the first check that fails, "" when none.
updateProposalChecks(p, payloadOK, status, voucher, addr, sigOK, pinOK, dbOK) ==
    IF ~payloadOK THEN "payload"
    ELSE IF status # "cancelled" THEN "status"
    ELSE IF voucher /\ validateUserWithRoleViaVoucher(addr, sigOK, p.community_id, "author")
    THEN "voucher"
    ELSE IF ~voucher /\ validateUserWithRole(addr, sigOK, p.community_id, "author")
    THEN "role"
    ELSE IF ~pinOK THEN "pin"
    ELSE IF ~dbOK THEN "db"
    ELSE ""

\* The error response of each failed check of updateProposal.
updateProposalErrorSlip(check) ==
    IF check = "role" THEN errForbidden ELSE errIncompleteRequest

updateProposalError(check) ==
    IF check \in {"voucher", "role"} THEN errForbidden ELSE errIncompleteRequest

\* p.UpdateProposal(a.DB): the row's status and cid are written.
UpdateProposal(p) ==
    [proposals EXCEPT ![p.id].status = p.status, ![p.id].cid = p.cid]

\* Lines 344-351: the proposal lookup.
updateProposal_fetch(r) ==
    /\ req[r].pc = "idle"
    /\ \E id \in ProposalIds \cup {0} :
         LET f == fetchProposal(id) IN
         IF f.err
         THEN /\ req' = [req EXCEPT ![r] = Finish("updateProposal", id, "", "lookup")]
              /\ resp' = [resp EXCEPT ![r] = respondWithError(@, errIncompleteRequest)]
         ELSE /\ req' = [req EXCEPT ![r] = Fetched("updateProposal", id, f.p)]
              /\ resp' = resp
    /\ UNCHANGED <<page, now, db, globals>>

\* Lines 353-407: payload, status, role validation, pin, write, answer.
\* An input the handler never reads on its path is not enumerated.
updateProposal_update(r) ==
    /\ req[r].handler = "updateProposal"
    /\ req[r].pc = "fetched"
    /\ \E payloadOK \in BOOLEAN :
       \E status \in IF payloadOK THEN {"cancelled", "published", "closed"} ELSE {""} :
       \E voucher \in IF status = "cancelled" THEN BOOLEAN ELSE {FALSE} :
       \E addr \in IF status = "cancelled" THEN Addrs ELSE {""} :
       \E sigOK \in IF status = "cancelled" THEN BOOLEAN ELSE {FALSE} :
       \E pinOK \in IF sigOK THEN BOOLEAN ELSE {FALSE} :
       \E dbOK \in IF status = "cancelled" THEN BOOLEAN ELSE {FALSE} :
         LET check == updateProposalChecks(req[r].proposal, payloadOK, status,
                                           voucher, addr, sigOK, pinOK, dbOK)
             p1 == [req[r].proposal EXCEPT !.status = status]
             p2 == [p1 EXCEPT !.cid = pinJSONToIpfs(p1)]
         IN
         /\ req' = [req EXCEPT ![r] =
                      [Finish("updateProposal", req[r].id, "", check)
                         EXCEPT !.sigOK = sigOK, !.pinOK = pinOK]]
         /\ IF check = ""
            THEN /\ proposals' = UpdateProposal(p2)
                 /\ resp' = [resp EXCEPT ![r] =
                               respondWithJSON(@, StatusOK,
                                               [kind |-> "proposal", proposal |-> p2])]
            ELSE /\ proposals' = proposals
                 /\ resp' = [resp EXCEPT ![r] =
                               respondWithError(@, updateProposalError(check))]
    /\ UNCHANGED <<page, now, votes, communities, awards, globals>>

\* ---------------------------------------------------- getResultsForProposal
\* models.GetAllVotesForProposal: the votes of one proposal, in insertion order.
GetAllVotesForProposal(vs, pid) ==
    SelectSeq(vs, LAMBDA v : v.proposal_id = pid)

\* The tally loop: each vote adds its freshly computed weight to its choice.
RECURSIVE TallyVotes(_, _, _)
TallyVotes(strategy, vs, chainOK) ==
    IF vs = <<>> THEN ZeroResults
    ELSE LET v == Head(vs)
             rest == TallyVotes(strategy, Tail(vs), chainOK)
         IN  [rest EXCEPT ![v.choice] =
                 @ + computeWeight(strategy, v.addr, chainOK).weight]

\* The first failure of the Strategy Engine over the votes, "" when none.
strategyError(strategy, vs, chainOK) ==
    IF strategy \notin RegisteredStrategies THEN "StrategyNotFound"
    ELSE IF \E i \in DOMAIN vs :
              computeWeight(strategy, vs[i].addr, chainOK).err = errFetchingBalance
    THEN "BalanceFetchError"
    ELSE ""

\* helpers.useStrategyTally(proposal, votes).
useStrategyTally(p, vs, chainOK) ==
    [err |-> strategyError(p.strategy, vs, chainOK),
     results |-> IF strategyError(p.strategy, vs, chainOK) = ""
                 THEN TallyVotes(p.strategy, vs, chainOK) ELSE ZeroResults]

\* helpers.useStrategyGetVotes(proposal, votes): each vote with its fresh weight.
useStrategyGetVotes(p, vs, chainOK) ==
    [err |-> strategyError(p.strategy, vs, chainOK),
     votes |-> IF strategyError(p.strategy, vs, chainOK) = ""
               THEN [i \in DOMAIN vs |->
                       [vs[i] EXCEPT !.weight =
                           computeWeight(p.strategy, vs[i].addr, chainOK).weight]]
               ELSE <<>>]

\* Lines 140-152: the votes of the proposal and their tally, or the error.
tallyOfCommunity(p, dbVotes, dbOK, chainOK) ==
    LET vs == GetAllVotesForProposal(dbVotes, p.community_id)
        t == useStrategyTally(p, vs, chainOK)
    IN  IF ~dbOK THEN [err |-> "db", votes |-> <<>>, results |-> ZeroResults]
        ELSE [err |-> t.err, votes |-> vs, results |-> t.results]

tally(p, dbVotes, dbOK, chainOK) ==
    LET vs == GetAllVotesForProposal(dbVotes, p.id)
        t == useStrategyTally(p, vs, chainOK)
    IN  IF ~dbOK THEN [err |-> "db", votes |-> <<>>, results |-> ZeroResults]
        ELSE [err |-> t.err, votes |-> vs, results |-> t.results]

\* Lines 137-138: the proposal lookup, whose error is not looked at.  Line 140
\* then dereferences proposal.Strategy: nil after a failed lookup, and the
\* handler panics before anything is written.
getResultsForProposal_fetch(r) ==
    /\ req[r].pc = "idle"
    /\ \E id \in ProposalIds \cup {0} :
         LET f == fetchProposal(id) IN
         req' = [req EXCEPT ![r] =
                   IF f.err
                   THEN [IdleReq EXCEPT !.handler = "getResultsForProposal",
                                        !.pc = "panic", !.id = id, !.err = "lookup"]
                   ELSE Fetched("getResultsForProposal", id, f.p)]
    /\ UNCHANGED <<page, now, db, globals, resp>>

\* Lines 140-152: read the votes, tally them.
getResultsForProposal_tally(r) ==
    /\ req[r].handler = "getResultsForProposal"
    /\ req[r].pc = "fetched"
    /\ \E dbOK \in BOOLEAN, chainOK \in BOOLEAN :
         LET t == tally(req[r].proposal, votes, dbOK, chainOK) IN
         IF t.err # ""
         THEN /\ req' = [req EXCEPT ![r] =
                           Finish("getResultsForProposal", req[r].id, "", t.err)]
              /\ resp' = [resp EXCEPT ![r] = respondWithError(@, errIncompleteRequest)]
         ELSE /\ req' = [req EXCEPT ![r].pc = "tallied", ![r].votes = t.votes,
                                     ![r].results = t.results]
              /\ resp' = resp
    /\ UNCHANGED <<page, now, db, globals>>

\* models.AddWinningVoteAchievement: the achievements of the winning voters
\* are awarded and the proposal is marked achievements_done.
AddWinningVoteAchievement(pid) ==
    /\ awards' = [awards EXCEPT ![pid] = @ + 1]
    /\ proposals' = [proposals EXCEPT ![pid].achievements_done = TRUE]

\* Line 154: the award is due when the fetched proposal is closed and not
\* yet marked done.
awardDueAnyStatus(p) == ~p.achievements_done

awardDue(p) == p.computed_status = "closed" /\ ~p.achievements_done

\* Lines 154-161: award when due; an award error is answered without
\* returning; then the results.
getResultsForProposal_respond(r) ==
    /\ req[r].handler = "getResultsForProposal"
    /\ req[r].pc = "tallied"
    /\ LET p == req[r].proposal
           results == [kind |-> "results", results |-> req[r].results]
       IN
       IF awardDue(p)
       THEN \E awardOK \in BOOLEAN :
              IF awardOK
              THEN /\ AddWinningVoteAchievement(p.id)
                   /\ req' = [req EXCEPT ![r] =
                                Finish("getResultsForProposal", req[r].id, "", "")]
                   /\ resp' = [resp EXCEPT ![r] = respondWithJSON(@, StatusOK, results)]
              ELSE /\ UNCHANGED <<awards, proposals>>
                   /\ req' = [req EXCEPT ![r] =
                                Finish("getResultsForProposal", req[r].id, "", "award")]
                   /\ resp' = [resp EXCEPT ![r] =
                                 respondWithJSON(
                                     respondWithError(@, errIncompleteRequest),
                                     StatusOK, results)]
       ELSE /\ UNCHANGED <<awards, proposals>>
            /\ req' = [req EXCEPT ![r] =
                         Finish("getResultsForProposal", req[r].id, "", "")]
            /\ resp' = [resp EXCEPT ![r] = respondWithJSON(@, StatusOK, results)]
    /\ UNCHANGED <<page, now, votes, communities, globals>>

\* ------------------------------------------------------ getVotesForProposal
\* Lines 164-171: the proposal lookup.
getVotesForProposal_fetch(r) ==
    /\ req[r].pc = "idle"
    /\ \E id \in ProposalIds \cup {0} :
         LET f == fetchProposal(id) IN
         IF f.err
         THEN /\ req' = [req EXCEPT ![r] =
                           Finish("getVotesForProposal", id, "", "lookup")]
              /\ resp' = [resp EXCEPT ![r] = respondWithError(@, errIncompleteRequest)]
         ELSE /\ req' = [req EXCEPT ![r] = Fetched("getVotesForProposal", id, f.p)]
              /\ resp' = resp
    /\ UNCHANGED <<page, now, db, globals>>

\* Lines 173-189: the page of votes, each with its fresh weight.
getVotesForProposal_list(r) ==
    /\ req[r].handler = "getVotesForProposal"
    /\ req[r].pc = "fetched"
    /\ \E dbOK \in BOOLEAN, chainOK \in BOOLEAN :
         LET vs == GetAllVotesForProposal(votes, req[r].proposal.id)
             w == useStrategyGetVotes(req[r].proposal, vs, chainOK)
             err == IF ~dbOK THEN "db" ELSE w.err
         IN
         /\ req' = [req EXCEPT ![r] =
                      Finish("getVotesForProposal", req[r].id, "", err)]
         /\ resp' = [resp EXCEPT ![r] =
                       IF err # ""
                       THEN respondWithError(@, errIncompleteRequest)
                       ELSE respondWithJSON(@, StatusOK,
                                            [kind |-> "votes", votes |-> w.votes])]
    /\ UNCHANGED <<page, now, db, globals>>

\* --------------------------------------------------------------- getProposal
\* An entry of a community's strategy list: Threshold is a pointer, <<>> is nil.
Strategy(name, threshold) == [name |-> name, threshold |-> threshold]

\* models.MatchStrategyByProposal: the entry of the community's list that has
\* the proposal's strategy name; an error when there is none.  TRUE on error.
MatchStrategyByProposal(strategies, name) ==
    ~(\E i \in DOMAIN strategies : strategies[i].name = name)

\* Lines 290-297: the proposal lookup.
getProposal_fetch(r) ==
    /\ req[r].pc = "idle"
    /\ \E id \in ProposalIds \cup {0} :
         LET f == fetchProposal(id) IN
         IF f.err
         THEN /\ req' = [req EXCEPT ![r] = Finish("getProposal", id, "", "lookup")]
              /\ resp' = [resp EXCEPT ![r] = respondWithError(@, errIncompleteRequest)]
         ELSE /\ req' = [req EXCEPT ![r] = Fetched("getProposal", id, f.p)]
              /\ resp' = resp
    /\ UNCHANGED <<page, now, db, globals>>

\* Lines 299-313: the first check that fails, "" when none.
getProposalChecks(p, communityOK) ==
    IF ~communityOK \/ p.community_id \notin DOMAIN communities THEN "community"
    ELSE IF MatchStrategyByProposal(communities[p.community_id].strategies, p.strategy)
    THEN "strategy"
    ELSE ""

\* Lines 299-314: the community of the proposal, the strategy match, the answer.
getProposal_match(r) ==
    /\ req[r].handler = "getProposal"
    /\ req[r].pc = "fetched"
    /\ \E communityOK \in BOOLEAN :
         LET check == getProposalChecks(req[r].proposal, communityOK) IN
         /\ req' = [req EXCEPT ![r] = Finish("getProposal", req[r].id, "", check)]
         /\ resp' = [resp EXCEPT ![r] =
                       IF check # ""
                       THEN respondWithError(@, errIncompleteRequest)
                       ELSE respondWithJSON(@, StatusOK,
                                [kind |-> "proposal", proposal |-> req[r].proposal])]
    /\ UNCHANGED <<page, now, db, globals>>

\* ----------------------------------------------------------- updateCommunity
\* Lines 579-588: an entry with a threshold below 1 is an error.  TRUE on error.
validateContractThreshold(s) ==
    \E i \in DOMAIN s : s[i].threshold # <<>> /\ s[i].threshold[1] < 1

\* payload.Strategies is a pointer: present = FALSE is nil (field absent).
NilStrategies == [present |-> FALSE, list |-> <<>>]

PayloadStrategies ==
    {NilStrategies}
    \cup {[present |-> TRUE, list |-> l] :
            l \in {<<>>} \cup {<<Strategy(n, t)>> :
                                 n \in RegisteredStrategies, t \in {<<>>, <<0>>, <<1>>}}}

\* helpers.updateCommunity: the fields the payload gives are written.
updateCommunityRow(c, strategies) ==
    IF strategies.present THEN [c EXCEPT !.strategies = strategies.list] ELSE c

\* Lines 535-577.  An error of validateProposalThreshold is answered without
\* returning (lines 563-566).
updateCommunity(r) ==
    /\ req[r].pc = "idle"
    /\ \E idOK \in BOOLEAN :
       \E payloadOK \in IF idOK THEN BOOLEAN ELSE {FALSE} :
       \E strategies \in IF payloadOK THEN PayloadStrategies ELSE {NilStrategies} :
       \E thresholdErr \in IF payloadOK THEN BOOLEAN ELSE {FALSE} :
       \E helperOK \in IF payloadOK THEN BOOLEAN ELSE {FALSE} :
       \E id \in CommunityIds :
         LET early == IF ~idOK THEN "id"
                      ELSE IF ~payloadOK THEN "payload"
                      ELSE IF strategies.present
                              /\ validateContractThreshold(strategies.list)
                      THEN "contractThreshold"
                      ELSE ""
             w1 == IF thresholdErr
                   THEN respondWithError(resp[r], errIncompleteRequest)
                   ELSE resp[r]
             c == updateCommunityRow(communities[id], strategies)
         IN
         IF early # ""
         THEN /\ req' = [req EXCEPT ![r] = Finish("updateCommunity", id, "", early)]
              /\ resp' = [resp EXCEPT ![r] = respondWithError(@, errIncompleteRequest)]
              /\ communities' = communities
         ELSE IF ~helperOK
         THEN /\ req' = [req EXCEPT ![r] = Finish("updateCommunity", id, "", "helper")]
              /\ resp' = [resp EXCEPT ![r] = respondWithError(w1, errIncompleteRequest)]
              /\ communities' = communities
         ELSE /\ req' = [req EXCEPT ![r] =
                           Finish("updateCommunity", id, "",
                                  IF thresholdErr THEN "proposalThreshold" ELSE "")]
              /\ resp' = [resp EXCEPT ![r] =
                            respondWithJSON(w1, StatusOK,
                                            [kind |-> "community", community |-> c])]
              /\ communities' = [communities EXCEPT ![id] = c]
    /\ UNCHANGED <<page, now, proposals, votes, awards, globals>>

\* ------------------------------------------------- lists, community users
\* The status a failing list or user helper hands back with its error.
HelperStatuses == {StatusBadRequest, StatusForbidden, StatusInternalServerError}

\* The route id, the payload, the helper: the first that fails, "" when none.
helperChecks(idOK, payloadOK, helperOK) ==
    IF ~idOK THEN "id"
    ELSE IF ~payloadOK THEN "payload"
    ELSE IF ~helperOK THEN "helper"
    ELSE ""

\* The handler stands after the assignment of its helper's status to the
\* StatusCode field of a package-level error value.
Assigned(h, httpStatus) ==
    [IdleReq EXCEPT !.handler = h, !.pc = "assigned", !.httpStatus = httpStatus]

\* The handler returns after answering its helper's error.
HelperFailed(q) == [q EXCEPT !.pc = "done", !.err = "helper"]

\* Lines 684-705: route id, payload, helpers.createListForCommunity, and on
\* its error the assignment errIncompleteRequest.StatusCode = httpStatus.
createListForCommunity_call(r) ==
    /\ req[r].pc = "idle"
    /\ \E idOK \in BOOLEAN :
       \E payloadOK \in IF idOK THEN BOOLEAN ELSE {FALSE} :
       \E helperOK \in IF payloadOK THEN BOOLEAN ELSE {FALSE} :
       \E httpStatus \in IF payloadOK /\ ~helperOK THEN HelperStatuses ELSE {0} :
         LET check == helperChecks(idOK, payloadOK, helperOK) IN
         IF check = "helper"
         THEN /\ errIncompleteRequest' =
                    [errIncompleteRequest EXCEPT !.StatusCode = httpStatus]
              /\ req' = [req EXCEPT ![r] = Assigned("createListForCommunity", httpStatus)]
              /\ resp' = resp
         ELSE /\ errIncompleteRequest' = errIncompleteRequest
              /\ req' = [req EXCEPT ![r] = Finish("createListForCommunity", 0, "", check)]
              /\ resp' = [resp EXCEPT ![r] =
                            IF check = ""
                            THEN respondWithJSON(@, StatusCreated, [kind |-> "list"])
                            ELSE respondWithError(@, errIncompleteRequest)]
    /\ UNCHANGED <<page, now, db, errCreateCommunity>>

\* Line 706: the answer with the package-level value as it is now.
createListForCommunity_respond(r) ==
    /\ req[r].handler = "createListForCommunity"
    /\ req[r].pc = "assigned"
    /\ req' = [req EXCEPT ![r] = HelperFailed(@)]
    /\ resp' = [resp EXCEPT ![r] = respondWithError(@, errIncompleteRequest)]
    /\ UNCHANGED <<page, now, db, globals>>

\* Lines 713-732: route id, payload, helpers.updateAddressesInList "add", and
\* on its error the assignment errIncompleteRequest.StatusCode = httpStatus.
addAddressesToList_call(r) ==
    /\ req[r].pc = "idle"
    /\ \E idOK \in BOOLEAN :
       \E payloadOK \in IF idOK THEN BOOLEAN ELSE {FALSE} :
       \E helperOK \in IF payloadOK THEN BOOLEAN ELSE {FALSE} :
       \E httpStatus \in IF payloadOK /\ ~helperOK THEN HelperStatuses ELSE {0} :
         LET check == helperChecks(idOK, payloadOK, helperOK) IN
         IF check = "helper"
         THEN /\ errIncompleteRequest' =
                    [errIncompleteRequest EXCEPT !.StatusCode = httpStatus]
              /\ req' = [req EXCEPT ![r] = Assigned("addAddressesToList", httpStatus)]
              /\ resp' = resp
         ELSE /\ errIncompleteRequest' = errIncompleteRequest
              /\ req' = [req EXCEPT ![r] = Finish("addAddressesToList", 0, "", check)]
              /\ resp' = [resp EXCEPT ![r] =
                            IF check = ""
                            THEN respondWithJSON(@, StatusCreated, [kind |-> "OK"])
                            ELSE respondWithError(@, errIncompleteRequest)]
    /\ UNCHANGED <<page, now, db, errCreateCommunity>>

\* Line 733: the answer is errCreateCommunity, not the value assigned to.
addAddressesToList_respond(r) ==
    /\ req[r].handler = "addAddressesToList"
    /\ req[r].pc = "assigned"
    /\ req' = [req EXCEPT ![r] = HelperFailed(@)]
    /\ resp' = [resp EXCEPT ![r] = respondWithError(@, errCreateCommunity)]
    /\ UNCHANGED <<page, now, db, globals>>

\* Lines 740-759: route id, payload, helpers.updateAddressesInList "remove",
\* and on its error the assignment errIncompleteRequest.StatusCode = httpStatus.
removeAddressesFromList_call(r) ==
    /\ req[r].pc = "idle"
    /\ \E idOK \in BOOLEAN :
       \E payloadOK \in IF idOK THEN BOOLEAN ELSE {FALSE} :
       \E helperOK \in IF payloadOK THEN BOOLEAN ELSE {FALSE} :
       \E httpStatus \in IF payloadOK /\ ~helperOK THEN HelperStatuses ELSE {0} :
         LET check == helperChecks(idOK, payloadOK, helperOK) IN
         IF check = "helper"
         THEN /\ errIncompleteRequest' =
                    [errIncompleteRequest EXCEPT !.StatusCode = httpStatus]
              /\ req' = [req EXCEPT ![r] = Assigned("removeAddressesFromList", httpStatus)]
              /\ resp' = resp
         ELSE /\ errIncompleteRequest' = errIncompleteRequest
              /\ req' = [req EXCEPT ![r] = Finish("removeAddressesFromList", 0, "", check)]
              /\ resp' = [resp EXCEPT ![r] =
                            IF check = ""
                            THEN respondWithJSON(@, StatusOK, [kind |-> "OK"])
                            ELSE respondWithError(@, errIncompleteRequest)]
    /\ UNCHANGED <<page, now, db, errCreateCommunity>>

\* Line 760: the answer with the package-level value as it is now.
removeAddressesFromList_respond(r) ==
    /\ req[r].handler = "removeAddressesFromList"
    /\ req[r].pc = "assigned"
    /\ req' = [req EXCEPT ![r] = HelperFailed(@)]
    /\ resp' = [resp EXCEPT ![r] = respondWithError(@, errIncompleteRequest)]
    /\ UNCHANGED <<page, now, db, globals>>

\* Lines 809-830: route id, payload, helpers.createCommunityUser, and on its
\* error the assignment errCreateCommunity.StatusCode = httpStatus.
createCommunityUser_call(r) ==
    /\ req[r].pc = "idle"
    /\ \E idOK \in BOOLEAN :
       \E payloadOK \in IF idOK THEN BOOLEAN ELSE {FALSE} :
       \E helperOK \in IF payloadOK THEN BOOLEAN ELSE {FALSE} :
       \E httpStatus \in IF payloadOK /\ ~helperOK THEN HelperStatuses ELSE {0} :
         LET check == helperChecks(idOK, payloadOK, helperOK) IN
         IF check = "helper"
         THEN /\ errCreateCommunity' =
                    [errCreateCommunity EXCEPT !.StatusCode = httpStatus]
              /\ req' = [req EXCEPT ![r] = Assigned("createCommunityUser", httpStatus)]
              /\ resp' = resp
         ELSE /\ errCreateCommunity' = errCreateCommunity
              /\ req' = [req EXCEPT ![r] = Finish("createCommunityUser", 0, "", check)]
              /\ resp' = [resp EXCEPT ![r] =
                            IF check = ""
                            THEN respondWithJSON(@, StatusCreated, [kind |-> "OK"])
                            ELSE respondWithError(@, errIncompleteRequest)]
    /\ UNCHANGED <<page, now, db, errIncompleteRequest>>

\* Line 831: the answer with the package-level value as it is now.
createCommunityUser_respond(r) ==
    /\ req[r].handler = "createCommunityUser"
    /\ req[r].pc = "assigned"
    /\ req' = [req EXCEPT ![r] = HelperFailed(@)]
    /\ resp' = [resp EXCEPT ![r] = respondWithError(@, errCreateCommunity)]
    /\ UNCHANGED <<page, now, db, globals>>

\* ------------------------------------------------------------ getPageParams
\* Form values are strings: sequences of characters.
Chars == {"-", "0", "2", "x"}
DigitValue == [c \in {"0", "2"} |-> IF c = "0" THEN 0 ELSE 2]
FormValues == UNION {[1..n -> Chars] : n \in 0..MaxLen}
Orders == {"", "asc", "desc"}

\* The value of a sequence of decimal digits.
RECURSIVE DigitsValue(_)
DigitsValue(ds) ==
    IF ds = <<>> THEN 0
    ELSE DigitsValue(SubSeq(ds, 1, Len(ds) - 1)) * 10 + DigitValue[ds[Len(ds)]]

\* strconv.Atoi with its error dropped (s, _ := strconv.Atoi(...)): an
\* optional sign and at least one digit, else 0.
Atoi(s) ==
    LET signed == s # <<>> /\ Head(s) = "-"
        ds == IF signed THEN Tail(s) ELSE s
    IN  IF ds = <<>> \/ \E i \in DOMAIN ds : ds[i] \notin DOMAIN DigitValue
        THEN 0
        ELSE IF signed THEN 0 - DigitsValue(ds) ELSE DigitsValue(ds)

\* shared.PageParams before a handler has computed it.
ZeroPageParams == [Start |-> 0, Count |-> 0, Order |-> ""]

NoPage ==
    [start |-> <<>>, count |-> <<>>, order |-> "", defaultCount |-> 0,
     done |-> FALSE, pageParams |-> ZeroPageParams]

\* Lines 1012-1033 with the check c < 1 left out.
getPageParamsNoFloor(start, count, order, defaultCount) ==
    LET s == Atoi(start)
        c == Atoi(count)
    IN  [Start |-> IF s < 0 THEN 0 ELSE s,
         Count |-> IF c > defaultCount THEN defaultCount ELSE c,
         Order |-> IF order = "" THEN "desc" ELSE order]

\* Lines 1012-1033.
getPageParams(start, count, order, defaultCount) ==
    LET s == Atoi(start)
        c == Atoi(count)
    IN  [Start |-> IF s < 0 THEN 0 ELSE s,
         Count |-> IF c > defaultCount \/ c < 1 THEN defaultCount ELSE c,
         Order |-> IF order = "" THEN "desc" ELSE order]

\* A handler computes the PageParams of its request.
getPageParams_call ==
    /\ ~page.done
    /\ page' = [page EXCEPT !.done = TRUE,
                            !.pageParams = getPageParams(page.start, page.count,
                                                         page.order, page.defaultCount)]
    /\ UNCHANGED <<now, db, globals, req, resp>>

\* ----------------------------------------------------------- createCommunity
\* helpers.createCommunity: the row of the new community, under the next id.
createCommunityRow(cs, strategies) ==
    LET id == Cardinality(DOMAIN cs) + 1 IN
    [i \in DOMAIN cs \cup {id} |->
        IF i = id THEN [strategies |-> strategies.list] ELSE cs[i]]

\* Lines 497-533.  An error of validateProposalThreshold is answered without
\* returning (lines 519-522).
createCommunity(r) ==
    /\ req[r].pc = "idle"
    /\ \E payloadOK \in BOOLEAN :
       \E strategies \in IF payloadOK THEN PayloadStrategies ELSE {NilStrategies} :
       \E thresholdErr \in IF payloadOK THEN BOOLEAN ELSE {FALSE} :
       \E helperOK \in IF payloadOK THEN BOOLEAN ELSE {FALSE} :
         LET early == IF ~payloadOK THEN "payload"
                      ELSE IF strategies.present
                              /\ validateContractThreshold(strategies.list)
                      THEN "contractThreshold"
                      ELSE ""
             w1 == IF thresholdErr
                   THEN respondWithError(resp[r], errIncompleteRequest)
                   ELSE resp[r]
             cs == createCommunityRow(communities, strategies)
             id == Cardinality(DOMAIN cs)
         IN
         IF early # ""
         THEN /\ req' = [req EXCEPT ![r] = Finish("createCommunity", 0, "", early)]
              /\ resp' = [resp EXCEPT ![r] = respondWithError(@, errIncompleteRequest)]
              /\ communities' = communities
         ELSE IF ~helperOK
         THEN /\ req' = [req EXCEPT ![r] = Finish("createCommunity", 0, "", "helper")]
              /\ resp' = [resp EXCEPT ![r] = respondWithError(w1, errIncompleteRequest)]
              /\ communities' = communities
         ELSE /\ req' = [req EXCEPT ![r] =
                           Finish("createCommunity", id, "",
                                  IF thresholdErr THEN "proposalThreshold" ELSE "")]
              /\ resp' = [resp EXCEPT ![r] =
                            respondWithJSON(w1, StatusCreated,
                                            [kind |-> "community", community |-> cs[id]])]
              /\ communities' = cs
    /\ UNCHANGED <<page, now, proposals, votes, awards, globals>>

\* --------------------------------------------------------- searchCommunities
\* Lines 426-454.  Neither the error of helpers.searchCommunities nor that of
\* helpers.appendFiltersToResponse is followed by a return.
searchCommunities(r) ==
    /\ req[r].pc = "idle"
    /\ \E count \in {<<>>, <<"2">>}, searchOK \in BOOLEAN, appendOK \in BOOLEAN :
         LET pageParams == getPageParams(<<>>, count, "", SearchDefaultCount)
             w1 == IF searchOK THEN resp[r]
                   ELSE respondWithError(resp[r], errIncompleteRequest)
             w2 == IF appendOK THEN w1
                   ELSE respondWithError(w1, errIncompleteRequest)
         IN
         /\ req' = [req EXCEPT ![r] =
                      Finish("searchCommunities", 0, "",
                             IF ~searchOK THEN "search"
                             ELSE IF ~appendOK THEN "append" ELSE "")]
         /\ resp' = [resp EXCEPT ![r] =
                       respondWithJSON(w2, StatusOK,
                                       [kind |-> "communities",
                                        pageParams |-> pageParams])]
    /\ UNCHANGED <<page, now, db, globals>>

\* ---------------------------------------------------------------- the clock
Tick ==
    /\ now < MaxTime
    /\ now' = now + 1
    /\ UNCHANGED <<page, db, globals, req, resp>>

\* ------------------------------------------------------------------- Init
InitProposal(id, strategy) ==
    [community_id |-> 1, strategy |-> strategy, status |-> "published",
     achievements_done |-> FALSE, end_time |-> 1,
     cid |-> "published"]

\* The community's strategy list when its proposals were created.
InitStrategies ==
    <<Strategy("one-address-one-vote", <<>>),
      Strategy("balance-threshold", <<Threshold>>)>>

InitCommon ==
    /\ now = 0
    /\ communities = [c \in CommunityIds |-> [strategies |-> InitStrategies]]
    /\ awards = [p \in ProposalIds |-> 0]
    /\ errIncompleteRequest = errIncompleteRequest0
    /\ errCreateCommunity = errCreateCommunity0
    /\ req = [r \in Reqs |-> IdleReq]
    /\ resp = [r \in Reqs |-> NoResponse]
    /\ page = NoPage

Init ==
    /\ InitCommon
    /\ \E s \in StrategyNames :
         proposals = [p \in ProposalIds |->
                        InitProposal(p, IF p = 1 THEN "one-address-one-vote" ELSE s)]
    /\ votes = <<>>

Next ==
    \/ \E r \in Reqs : createVoteForProposal_fetch(r)
    \/ \E r \in Reqs : createVoteForProposal_create(r)
    \/ Tick

Spec == Init /\ [][Next]_vars

\* The read paths over a ledger that holds votes: tally and vote listing.
\* Addresses X and Y have voted on both proposals; the weight is the one
\* captured at cast time.
TallyLedger(s1) ==
    <<[proposal_id |-> 1, addr |-> "X", choice |-> "yes",
       weight |-> computeWeight(s1, "X", TRUE).weight],
      [proposal_id |-> 1, addr |-> "Y", choice |-> "no",
       weight |-> computeWeight(s1, "Y", TRUE).weight],
      [proposal_id |-> 2, addr |-> "X", choice |-> "yes", weight |-> Balance["X"]],
      [proposal_id |-> 2, addr |-> "Y", choice |-> "no", weight |-> Balance["Y"]]>>

\* Proposal 2's strategy handler may have been removed after its votes.
InitTally ==
    /\ InitCommon
    /\ \E s1 \in {"one-address-one-vote", "balance-threshold"},
          s2 \in {"balance-threshold", "removed-strategy"} :
         /\ proposals = [p \in ProposalIds |->
                           InitProposal(p, IF p = 1 THEN s1 ELSE s2)]
         /\ votes = TallyLedger(s1)

NextTally ==
    \/ \E r \in Reqs : getResultsForProposal_fetch(r)
    \/ \E r \in Reqs : getResultsForProposal_tally(r)
    \/ \E r \in Reqs : getResultsForProposal_respond(r)
    \/ \E r \in Reqs : getVotesForProposal_fetch(r)
    \/ \E r \in Reqs : getVotesForProposal_list(r)
    \/ Tick

SpecTally == InitTally /\ [][NextTally]_vars

\* The tally as a function of the ledger: one reader over every ledger of at
\* most MaxVotes votes that the cast path can have produced.
VoteValues(props) ==
    {[proposal_id |-> p, addr |-> a, choice |-> c,
      weight |-> computeWeight(props[p].strategy, a, TRUE).weight] :
        p \in ProposalIds, a \in Addrs, c \in Choices}

ValidLedger(vs, props) ==
    /\ \A i \in DOMAIN vs :
         createVoteChecks([strategy |-> props[vs[i].proposal_id].strategy,
                           computed_status |-> "active"],
                          vs[i].addr, TRUE, TRUE) = nilErr
    /\ \A i, j \in DOMAIN vs :
         (vs[i].proposal_id = vs[j].proposal_id /\ vs[i].addr = vs[j].addr) => i = j

InitTallyFn ==
    /\ InitCommon
    /\ \E s \in StrategyNames :
         /\ proposals = [p \in ProposalIds |->
                           InitProposal(p, IF p = 1 THEN "one-address-one-vote" ELSE s)]
         /\ \E n \in 0..MaxVotes : \E vs \in [1..n -> VoteValues(proposals)] :
              /\ ValidLedger(vs, proposals)
              /\ votes = vs

NextTallyFn ==
    \/ getResultsForProposal_fetch(1)
    \/ getResultsForProposal_tally(1)
    \/ getResultsForProposal_respond(1)
    \/ Tick

SpecTallyFn == InitTallyFn /\ [][NextTallyFn]_vars

\* The community path: the strategy list is edited while proposals created
\* under it are read and tallied.
InitCommunity ==
    /\ InitCommon
    /\ proposals = [p \in ProposalIds |->
                      InitProposal(p, IF p = 1 THEN "one-address-one-vote"
                                      ELSE "balance-threshold")]
    /\ votes = TallyLedger("one-address-one-vote")

NextCommunity ==
    \/ \E r \in Reqs : updateCommunity(r)
    \/ \E r \in Reqs : getProposal_fetch(r)
    \/ \E r \in Reqs : getProposal_match(r)
    \/ \E r \in Reqs : getResultsForProposal_fetch(r)
    \/ \E r \in Reqs : getResultsForProposal_tally(r)
    \/ \E r \in Reqs : getResultsForProposal_respond(r)

SpecCommunity == InitCommunity /\ [][NextCommunity]_vars

\* Two proposals of known strategies and no votes yet.
InitReads ==
    /\ InitCommon
    /\ proposals = [p \in ProposalIds |->
                      InitProposal(p, IF p = 1 THEN "one-address-one-vote"
                                      ELSE "balance-threshold")]
    /\ votes = <<>>

\* The proposal path: status updates against the clock.
NextProposal ==
    \/ \E r \in Reqs : updateProposal_fetch(r)
    \/ \E r \in Reqs : updateProposal_update(r)
    \/ Tick

SpecProposal == InitReads /\ [][NextProposal]_vars

\* The list and community-user path: handlers that assign to the package-level
\* error values, next to a read that answers with one of them.
NextLists ==
    \/ \E r \in Reqs : createListForCommunity_call(r)
    \/ \E r \in Reqs : createListForCommunity_respond(r)
    \/ \E r \in Reqs : addAddressesToList_call(r)
    \/ \E r \in Reqs : addAddressesToList_respond(r)
    \/ \E r \in Reqs : removeAddressesFromList_call(r)
    \/ \E r \in Reqs : removeAddressesFromList_respond(r)
    \/ \E r \in Reqs : createCommunityUser_call(r)
    \/ \E r \in Reqs : createCommunityUser_respond(r)
    \/ \E r \in Reqs : getVotesForProposal_fetch(r)
    \/ \E r \in Reqs : getVotesForProposal_list(r)

SpecLists == Init /\ [][NextLists]_vars

\* The read paths next to the cast path: the ledger grows while it is read.
NextReads ==
    \/ \E r \in Reqs : createVoteForProposal_fetch(r)
    \/ \E r \in Reqs : createVoteForProposal_create(r)
    \/ \E r \in Reqs : getResultsForProposal_fetch(r)
    \/ \E r \in Reqs : getResultsForProposal_tally(r)
    \/ \E r \in Reqs : getResultsForProposal_respond(r)
    \/ \E r \in Reqs : getVotesForProposal_fetch(r)
    \/ \E r \in Reqs : getVotesForProposal_list(r)
    \/ Tick

SpecReads == InitReads /\ [][NextReads]_vars

\* getPageParams as a function of the form values and the configured maximum.
InitPage ==
    /\ now = 0
    /\ communities = [c \in CommunityIds |-> [strategies |-> InitStrategies]]
    /\ awards = [p \in ProposalIds |-> 0]
    /\ errIncompleteRequest = errIncompleteRequest0
    /\ errCreateCommunity = errCreateCommunity0
    /\ req = [r \in Reqs |-> IdleReq]
    /\ resp = [r \in Reqs |-> NoResponse]
    /\ proposals = [p \in ProposalIds |-> InitProposal(p, "one-address-one-vote")]
    /\ votes = <<>>
    /\ \E s \in FormValues, c \in FormValues, o \in Orders, m \in 1..MaxCount :
         page = [NoPage EXCEPT !.start = s, !.count = c, !.order = o,
                               !.defaultCount = m]

NextPage == getPageParams_call

SpecPage == InitPage /\ [][NextPage]_vars

\* The community handlers next to the tally read: every handler that can
\* answer an error and go on.
NextCommunityWrites ==
    \/ \E r \in Reqs : createCommunity(r)
    \/ \E r \in Reqs : updateCommunity(r)
    \/ \E r \in Reqs : searchCommunities(r)
    \/ \E r \in Reqs : getResultsForProposal_fetch(r)
    \/ \E r \in Reqs : getResultsForProposal_tally(r)
    \/ \E r \in Reqs : getResultsForProposal_respond(r)
    \/ Tick

SpecCommunityWrites == InitCommunity /\ [][NextCommunityWrites]_vars

\* =================================================================== claims
VotesFor(a, p) ==
    {i \in DOMAIN votes : votes[i].addr = a /\ votes[i].proposal_id = p}

\* The finished createVoteForProposal requests of address a on proposal p.
CastDone(a, p) ==
    {r \in Reqs : /\ req[r].handler = "createVoteForProposal"
                  /\ req[r].pc = "done"
                  /\ req[r].id = p
                  /\ req[r].addr = a}

Created(r) == resp[r].status = StatusCreated

ErrorBody(err) ==
    <<[kind |-> "error", statusCode |-> err.StatusCode, errorCode |-> err.ErrorCode]>>

Answered(r, err) ==
    resp[r] = [status |-> err.StatusCode, body |-> ErrorBody(err)]

\* The errors of the checks that come before the insert.
CheckErrors ==
    {errInactiveProposal, errForbidden, errStrategyNotFound, errFetchingBalance,
     errInsufficientBalance}

\* C1: for every address A and proposal P, whatever the interleaving of the
\* cast requests, at most one vote exists for (A, P); exactly one request is
\* answered 201 with that vote, which is never overwritten; every other
\* request that got as far as the insert is answered AlreadyVoted (ERR_1009),
\* and no cast request that found its proposal gets a generic error.
C1_OneVotePerAddress ==
    \A a \in Addrs, p \in ProposalIds :
        LET ok == {r \in CastDone(a, p) : Created(r)} IN
        /\ Cardinality(VotesFor(a, p)) <= 1
        /\ Cardinality(ok) = Cardinality(VotesFor(a, p))
        /\ \A r \in ok : \A i \in VotesFor(a, p) :
               resp[r].body = <<[kind |-> "vote", vote |-> votes[i]]>>
        /\ \A r \in CastDone(a, p) \ ok :
               \/ \E e \in CheckErrors : Answered(r, e)
               \/ Answered(r, errAlreadyVoted) /\ VotesFor(a, p) # {}

\* C1 witness: two finished casts of one address on one proposal, one created
\* and one refused as AlreadyVoted.
C1_Witness ==
    \E a \in Addrs, p \in ProposalIds : \E r1, r2 \in CastDone(a, p) :
        /\ r1 # r2
        /\ Created(r1)
        /\ Answered(r2, errAlreadyVoted)

\* C5: a cast request that completes while the proposal's computed status is
\* not active is rejected and records no vote, also when the proposal left
\* the active state after the request began.
C5_InactiveRejected ==
    [][\A r \in Reqs :
         (/\ req[r].handler = "createVoteForProposal"
          /\ req[r].pc = "fetched"
          /\ req'[r].pc = "done"
          /\ ComputedStatus(proposals[req[r].id].status,
                            proposals[req[r].id].end_time, now) # "active")
         => /\ votes' = votes
            /\ resp'[r].status # StatusCreated]_vars

\* C4: once a proposal is cancelled or closed by the end of its time window,
\* an updateProposal request that finds it so is rejected and the persisted
\* status does not change again.
C4_StatusMonotonic ==
    [][\A r \in Reqs :
         (/\ req[r].handler = "updateProposal"
          /\ req[r].pc = "fetched"
          /\ req'[r].pc = "done"
          /\ req[r].proposal.computed_status \in {"cancelled", "closed"})
         => /\ resp'[r].status # StatusOK
            /\ proposals'[req[r].id].status = proposals[req[r].id].status]_vars

\* The finished updateProposal requests whose role validation failed.
RoleRefused(path) ==
    {r \in Reqs : /\ req[r].handler = "updateProposal"
                  /\ req[r].pc = "done"
                  /\ req[r].err = path}

\* C10: an updateProposal request whose signer fails the "author" validation,
\* through a voucher or through composite signatures, is answered Forbidden
\* (403, ERR_1005) whether or not the signatures verify, and both paths give
\* the same response.
C10_RoleFailureForbidden ==
    /\ \A r \in RoleRefused("voucher") \cup RoleRefused("role") :
           Answered(r, errForbidden)
    /\ \A r1 \in RoleRefused("voucher"), r2 \in RoleRefused("role") :
           resp[r1] = resp[r2]

\* C10 witness: a voucher whose signatures verify but whose signer is no
\* author, and a composite-signature request refused as well.
C10_Witness ==
    \E r1 \in RoleRefused("voucher"), r2 \in RoleRefused("role") :
        /\ req[r1].sigOK
        /\ Answered(r1, errForbidden)
        /\ Answered(r2, errForbidden)

\* The finished reads (tally or vote listing) that ended with error e.
ReadsFailed(e) ==
    {r \in Reqs : /\ req[r].handler \in {"getResultsForProposal", "getVotesForProposal"}
                  /\ req[r].pc = "done"
                  /\ req[r].err = e}

\* C2: whatever the interleaving of the tally reads of a closed proposal, the
\* achievements are awarded at most once, and once awarded the proposal is
\* marked achievements_done.
C2_AwardedOnce ==
    \A p \in ProposalIds :
        /\ awards[p] <= 1
        /\ awards[p] = 1 => proposals[p].achievements_done

\* C3: a tally read whose award failed is still answered 200 with the tally
\* results and nothing else.
C3_AwardFailureIsolated ==
    \A r \in ReadsFailed("award") :
        /\ resp[r].status = StatusOK
        /\ Len(resp[r].body) = 1
        /\ resp[r].body[1].kind = "results"

\* C7: every failure a handler meets ends in an error response that carries
\* an error code; no handler goes on with a proposal it did not fetch.
C7_FailuresAnswered ==
    \A r \in Reqs :
        req[r].err # ""
        => /\ req[r].pc = "done"
           /\ resp[r].status >= StatusBadRequest
           /\ Len(resp[r].body) >= 1
           /\ resp[r].body[1].kind = "error"
           /\ resp[r].body[1].errorCode # ""

\* C8: on the tally and vote-listing reads a Chain Snapshot Client failure
\* and a missing strategy handler give different error responses.
C8_StrategyErrorsDistinct ==
    \A r1 \in ReadsFailed("BalanceFetchError"), r2 \in ReadsFailed("StrategyNotFound") :
        resp[r1] # resp[r2]

\* The sum of the weights of a set of voters.
RECURSIVE WeightSum(_, _)
WeightSum(strategy, voters) ==
    IF voters = {} THEN 0
    ELSE LET a == CHOOSE x \in voters : TRUE
         IN  computeWeight(strategy, a, TRUE).weight
             + WeightSum(strategy, voters \ {a})

VotersOf(pid, c) ==
    {votes[i].addr : i \in {j \in DOMAIN votes : /\ votes[j].proposal_id = pid
                                                  /\ votes[j].choice = c}}

\* C6: the tally a read returns maps each choice to the sum of computeWeight
\* over the distinct voters of the proposal who selected it, whatever the
\* order of the votes in the ledger.
C6_TallyIsSumOverVoters ==
    \A r \in Reqs :
        (/\ req[r].handler = "getResultsForProposal"
         /\ req[r].pc = "done"
         /\ req[r].err = "")
        => resp[r] =
             [status |-> StatusOK,
              body |-> <<[kind |-> "results",
                          results |-> [c \in Choices |->
                              WeightSum(proposals[req[r].id].strategy,
                                        VotersOf(req[r].id, c))]]>>]

\* C6 witness: a finished tally of a balance-weighted proposal on which two
\* addresses chose "yes" (15 + 20), the later voter first in the ledger.
C6_Witness ==
    \E r \in Reqs :
        /\ req[r].handler = "getResultsForProposal"
        /\ req[r].pc = "done"
        /\ req[r].err = ""
        /\ req[r].id = 2
        /\ resp[r].body[1].results["yes"] = Balance["X"] + Balance["Y"]
        /\ Len(votes) >= 2
        /\ votes[1].addr = "Y"

\* C9: whatever updateCommunity has done to the community's strategy list, a
\* proposal created before is still answered by getProposal, and its tally is
\* the one its own strategy gives.
C9_StrategyFrozen ==
    /\ \A r \in Reqs :
         (/\ req[r].handler = "getProposal"
          /\ req[r].pc = "done"
          /\ req[r].id \in ProposalIds
          /\ req[r].err # "community")
         => resp[r].status = StatusOK
    /\ C6_TallyIsSumOverVoters

\* The finished requests that were answered with an error response.
Refused ==
    {r \in Reqs : req[r].pc = "done" /\ req[r].err # ""}

\* The handlers that answer their helper's error with the status it gave.
OwnStatus(r) ==
    /\ req[r].err = "helper"
    /\ req[r].handler \in {"createListForCommunity", "removeAddressesFromList",
                           "createCommunityUser"}

\* C11: the status code a request gets with ERR_1001 or ERR_1002 depends on
\* that request alone: the status its own helper gave where the handler
\* answers with it, 400 otherwise, whatever other requests did before or
\* meanwhile.
C11_ErrorsPerRequest ==
    \A r \in Refused :
        resp[r].body[1].errorCode \in {"ERR_1001", "ERR_1002"}
        => /\ resp[r].status = IF OwnStatus(r) THEN req[r].httpStatus
                               ELSE StatusBadRequest
           /\ resp[r].body[1].statusCode = resp[r].status

\* C12: the award is invoked only on a proposal whose computed status is
\* "closed" and whose achievements_done is false at that moment: never on a
\* published or cancelled proposal, never on one already marked done.
C12_AwardOnlyWhenDue ==
    [][\A p \in ProposalIds :
         awards'[p] # awards[p]
         => /\ ComputedStatus(proposals[p].status, proposals[p].end_time, now)
                 = "closed"
            /\ ~proposals[p].achievements_done]_vars

\* Request r takes a step of a tally read or of a vote-listing read.
ReadStep(r) ==
    /\ req'[r] # req[r]
    /\ req'[r].handler \in {"getResultsForProposal", "getVotesForProposal"}

\* The votes a read step of r takes from the ledger or hands to its caller.
Observed(r) ==
    IF req'[r].pc = "tallied" THEN req'[r].votes
    ELSE IF /\ req'[r].handler = "getVotesForProposal"
            /\ req'[r].pc = "done"
            /\ req'[r].err = ""
    THEN resp'[r].body[1].votes
    ELSE <<>>

\* C13 as stated: no step of a tally read or of a vote-listing read changes
\* the stored votes, proposals, communities or achievements.
C13_ReadsReadOnly ==
    [][\A r \in Reqs : ReadStep(r) => UNCHANGED db]_vars

\* C13 amended: a step of a read changes no stored votes or communities and
\* no package-level error value; a vote listing changes nothing stored; a
\* tally read changes only the achievements and the achievements_done flag of
\* the proposal it fetched as closed and not done; every vote a read observes
\* is a whole vote of the ledger.
C13_ReadsChangeOnlyAward ==
    [][\A r \in Reqs :
         ReadStep(r)
         => /\ UNCHANGED <<votes, communities, globals>>
            /\ \/ UNCHANGED <<proposals, awards>>
               \/ /\ req[r].handler = "getResultsForProposal"
                  /\ req[r].pc = "tallied"
                  /\ req[r].proposal.computed_status = "closed"
                  /\ ~req[r].proposal.achievements_done
                  /\ awards' = [awards EXCEPT ![req[r].id] = @ + 1]
                  /\ proposals' =
                       [proposals EXCEPT ![req[r].id].achievements_done = TRUE]
            /\ \A i \in DOMAIN Observed(r) : \E j \in DOMAIN votes :
                 /\ Observed(r)[i].proposal_id = votes[j].proposal_id
                 /\ Observed(r)[i].addr = votes[j].addr
                 /\ Observed(r)[i].choice = votes[j].choice]_vars

\* C13 witness: a vote was cast, the proposal closed, and a finished tally
\* read of it has awarded the achievements; the ledger still holds the vote.
C13_Witness ==
    \E r \in Reqs :
        /\ req[r].handler = "getResultsForProposal"
        /\ req[r].pc = "done"
        /\ req[r].err = ""
        /\ resp[r].status = StatusOK
        /\ awards[req[r].id] = 1
        /\ proposals[req[r].id].achievements_done
        /\ \E i \in DOMAIN votes : votes[i].proposal_id = req[r].id

\* C14: for every start, count and order and every maximum M >= 1,
\* getPageParams gives Start >= 0 and 1 <= Count <= M: a count above M becomes
\* M, a missing or non-positive count becomes M, any other count is kept; a
\* negative start becomes 0; an empty order becomes "desc".
C14_PageParamsClamped ==
    page.done
    => LET out == page.pageParams
           M == page.defaultCount
       IN  /\ out.Start >= 0
           /\ 1 <= out.Count /\ out.Count <= M
           /\ Atoi(page.count) > M => out.Count = M
           /\ (page.count = <<>> \/ Atoi(page.count) <= 0) => out.Count = M
           /\ (1 <= Atoi(page.count) /\ Atoi(page.count) <= M)
                  => out.Count = Atoi(page.count)
           /\ out.Start = IF Atoi(page.start) < 0 THEN 0 ELSE Atoi(page.start)
           /\ out.Order = IF page.order = "" THEN "desc" ELSE page.order

\* C14 witness: count "22" above the maximum 3, start "-2", no order.
C14_Witness ==
    /\ page.done
    /\ page.count = <<"2", "2">> /\ page.defaultCount = MaxCount
    /\ page.pageParams.Count = MaxCount
    /\ page.start = <<"-", "2">> /\ page.pageParams.Start = 0
    /\ page.order = "" /\ page.pageParams.Order = "desc"

\* The response of r is one error response and nothing else.
OneError(w) ==
    /\ w.status >= StatusBadRequest
    /\ Len(w.body) = 1
    /\ w.body[1].kind = "error"

\* C15: a step of updateProposal changes the stored proposal only when the
\* requested status is "cancelled", the author validation has succeeded and
\* the pin has succeeded; a request that ends on any other outcome leaves the
\* stored state as it was and is answered with an error response.
C15_PersistsOnlyValidCancel ==
    [][\A r \in Reqs :
         (req'[r] # req[r] /\ req'[r].handler = "updateProposal")
         => /\ proposals' # proposals
                => /\ proposals'[req'[r].id].status = "cancelled"
                   /\ req'[r].err = ""
                   /\ req'[r].sigOK
                   /\ req'[r].pinOK
                   /\ resp'[r].status = StatusOK
            /\ (req'[r].pc = "done" /\ req'[r].err # "")
                => /\ UNCHANGED db
                   /\ OneError(resp'[r])]_vars

\* C15 witness: one request has cancelled its proposal, another ended on a
\* pin failure and left its proposal published.
C15_Witness ==
    \E r1, r2 \in Reqs :
        /\ req[r1].handler = "updateProposal" /\ req[r1].pc = "done"
        /\ req[r1].err = "" /\ resp[r1].status = StatusOK
        /\ proposals[req[r1].id].status = "cancelled"
        /\ req[r2].handler = "updateProposal" /\ req[r2].pc = "done"
        /\ req[r2].err = "pin" /\ OneError(resp[r2])
        /\ req[r2].id \in ProposalIds
        /\ proposals[req[r2].id].status = "published"

\* C16: every handler writes exactly one response per request: no writer is
\* given a second response, and a handler that has returned has given one.
C16_OneResponse ==
    \A r \in Reqs :
        /\ Len(resp[r].body) <= 1
        /\ req[r].pc = "done" => Len(resp[r].body) = 1

\* C17: a step of createCommunity or updateCommunity whose contract-threshold
\* or proposal-threshold validation failed creates and updates no community.
C17_InvalidNotPersisted ==
    [][\A r \in Reqs :
         (/\ req'[r] # req[r]
          /\ req'[r].handler \in {"createCommunity", "updateCommunity"}
          /\ req'[r].err \in {"contractThreshold", "proposalThreshold"})
         => communities' = communities]_vars
====
